---------------------------- MODULE Spec2Model ----------------------------
(* Proximity monitor of bluetooth-unlock (src/bluelock.go).                 *)
(* The file holds two variants of the program: one configured by            *)
(* command-line flags, one by config.json.  Both run the same               *)
(* MonitorBluetooth loop over PingBluetoothDevice, LockSystem and           *)
(* UnlockSystem.  Durations and times are counted in seconds.               *)
EXTENDS Integers, Sequences, FiniteSets, TLC

(***************************************************************************)
(* Program constants                                                       *)
(***************************************************************************)
defaultCheckInterval == 5
defaultLockRSSI == -14
defaultUnlockRSSI == -14
defaultSessionTimeout == 30 * 60
\* time.Second, the unit of the model's durations
Second == 1

(***************************************************************************)
(* Bounds of the model                                                     *)
(***************************************************************************)
MaxCycles == 3
MaxTimeout == 1
MaxRSSISpread == 4
LongInterval == 901

Thresholds == {defaultLockRSSI, defaultLockRSSI + 2}
RSSIValues == (defaultLockRSSI - 1) .. (defaultLockRSSI + MaxRSSISpread)
Timeouts == (0 - 1) .. MaxTimeout
FlagIntervals == {1, LongInterval}
FileIntervals == {0, LongInterval}

(***************************************************************************)
(* Text of the hcitool output, as a sequence of tokens; the functions of   *)
(* strings and strconv that PingBluetoothDevice applies to it.             *)
(***************************************************************************)
Marker == "RSSI return value"
Digits == <<"0", "1", "2", "3", "4", "5", "6", "7", "8", "9">>
IsDigit(t) == \E i \in 1..10 : Digits[i] = t
DigitVal(t) == (CHOOSE i \in 1..10 : Digits[i] = t) - 1
IsSpace(t) == t \in {" ", "\n"}

Contains(s, tok) == \E i \in DOMAIN s : s[i] = tok

RECURSIVE Split(_, _)
Split(s, sep) ==
    IF \A i \in DOMAIN s : s[i] # sep
    THEN <<s>>
    ELSE LET k == CHOOSE i \in DOMAIN s :
                      s[i] = sep /\ \A j \in 1..(i - 1) : s[j] # sep
         IN  <<SubSeq(s, 1, k - 1)>> \o Split(SubSeq(s, k + 1, Len(s)), sep)

RECURSIVE TrimSpace(_)
TrimSpace(s) ==
    IF s = <<>> THEN s
    ELSE IF IsSpace(Head(s)) THEN TrimSpace(Tail(s))
    ELSE IF IsSpace(s[Len(s)]) THEN TrimSpace(SubSeq(s, 1, Len(s) - 1))
    ELSE s

RECURSIVE DigitsValue(_)
DigitsValue(s) ==
    IF s = <<>> THEN 0
    ELSE 10 * DigitsValue(SubSeq(s, 1, Len(s) - 1)) + DigitVal(s[Len(s)])

\* strconv.Atoi: an optional sign and at least one digit, nothing else
Atoi(s) ==
    LET signed == s # <<>> /\ Head(s) \in {"-", "+"}
        body == IF signed THEN Tail(s) ELSE s
    IN  IF body # <<>> /\ \A i \in DOMAIN body : IsDigit(body[i])
        THEN [err |-> FALSE,
              val |-> IF signed /\ Head(s) = "-"
                      THEN 0 - DigitsValue(body) ELSE DigitsValue(body)]
        ELSE [err |-> TRUE, val |-> 0]

RECURSIVE NatDigits(_)
NatDigits(n) ==
    IF n < 10 THEN <<Digits[n + 1]>>
    ELSE NatDigits(n \div 10) \o <<Digits[(n % 10) + 1]>>

\* what `hcitool rssi` prints for a connected device: "RSSI return value: %d\n"
HciRSSILine(n) ==
    <<Marker, ":", " ">>
        \o (IF n < 0 THEN <<"-">> \o NatDigits(0 - n) ELSE NatDigits(n))
        \o <<"\n">>

NoOutcome == [err |-> FALSE, output |-> <<>>]

\* no session-timeout lock is the latest LockSystem call
NoForce == [cycle |-> 0, time |-> 0]

\* the results of cmd.Run() with the combined stdout and stderr
HciOutcomes ==
    {[err |-> FALSE, output |-> HciRSSILine(n)] : n \in RSSIValues}
    \cup {[err |-> TRUE, output |-> <<"Not connected.", "\n">>],
          [err |-> TRUE, output |-> <<>>],
          [err |-> FALSE, output |-> <<"Not connected.", "\n">>],
          [err |-> FALSE, output |-> <<Marker>>],
          [err |-> FALSE, output |-> <<Marker, ":", " ", "n/a", "\n">>],
          [err |-> FALSE, output |-> <<Marker, ":", "\n">>],
          [err |-> FALSE,
           output |-> HciRSSILine(defaultLockRSSI) \o <<"Link quality", ":", " ", "1">>]}


(***************************************************************************)
(* State                                                                   *)
(***************************************************************************)
VARIABLES
    variant,            \* "flags" or "config": which main() runs
    CheckInterval,      \* configuration, fixed once main() has read it
    LockRSSI,
    UnlockRSSI,
    SessionTimeout,
    configuredTimeout,  \* the session timeout as written on the command line or in config.json
    pc,                 \* position of the single goroutine
    mode,               \* MonitorBluetooth: "locked" / "unlocked"
    lastUnlockedTime,
    inRange,            \* results of the last PingBluetoothDevice call
    err,
    currentTime,
    clock,              \* time.Now()
    cancelRequested,    \* a shutdown of the monitor has been asked for
    cycles,             \* iterations of the loop begun so far
    hci,                \* what hcitool returned in this iteration
    calls,              \* LockSystem / UnlockSystem calls of this iteration
    log,                \* all LockSystem / UnlockSystem calls so far
    modeAtStart,        \* mode and lastUnlockedTime when the iteration began
    lastAtStart,
    forcedAt            \* iteration and time of the session-timeout lock, while it is the latest LockSystem call

vars == <<variant, CheckInterval, LockRSSI, UnlockRSSI, SessionTimeout,
          configuredTimeout, pc,
          mode, lastUnlockedTime, inRange, err, currentTime, clock,
          cancelRequested, cycles, hci, calls, log, modeAtStart, lastAtStart,
          forcedAt>>

configVars == <<variant, CheckInterval, LockRSSI, UnlockRSSI, SessionTimeout,
                configuredTimeout>>
historyVars == <<cycles, hci, calls, log, modeAtStart, lastAtStart, forcedAt>>

\* the process before main() runs: globals hold their zero values
Init ==
    /\ variant = "none"
    /\ CheckInterval = 0
    /\ LockRSSI = 0
    /\ UnlockRSSI = 0
    /\ SessionTimeout = 0
    /\ configuredTimeout = 0
    /\ pc = "main"
    /\ mode = ""
    /\ lastUnlockedTime = 0
    /\ inRange = FALSE
    /\ err = FALSE
    /\ currentTime = 0
    /\ clock = 0
    /\ cancelRequested = FALSE
    /\ cycles = 0
    /\ hci = NoOutcome
    /\ calls = <<>>
    /\ log = <<>>
    /\ modeAtStart = ""
    /\ lastAtStart = 0
    /\ forcedAt = NoForce

(***************************************************************************)
(* Configuration                                                           *)
(***************************************************************************)
\* flag.Parse() accepts any integer and any duration, negative ones included
InitializeFlags ==
    /\ pc = "main"
    /\ \E ci \in FlagIntervals, lk \in Thresholds, ul \in Thresholds, st \in Timeouts :
          /\ CheckInterval' = ci
          /\ LockRSSI' = lk
          /\ UnlockRSSI' = ul
          /\ SessionTimeout' = st
          /\ configuredTimeout' = st
    /\ variant' = "flags"
    /\ pc' = "monitor"
    /\ UNCHANGED <<mode, lastUnlockedTime, inRange, err, currentTime, clock,
                   cancelRequested, historyVars>>

DefaultConfig ==
    [CheckInterval |-> defaultCheckInterval * Second, LockRSSI |-> defaultLockRSSI,
     UnlockRSSI |-> defaultUnlockRSSI,
     SessionTimeout |-> defaultSessionTimeout * Second]

\* the contents of an existing config.json: the integers of its fields, or
\* text json cannot decode
ConfigFiles ==
    [decodes : {TRUE}, check_interval : FileIntervals, lock_rssi : Thresholds,
     unlock_rssi : Thresholds, session_timeout : Timeouts]
    \cup {[decodes |-> FALSE, check_interval |-> 0, lock_rssi |-> 0,
           unlock_rssi |-> 0, session_timeout |-> 0]}

LoadConfig(file) ==
    IF ~file.decodes
    THEN [err |-> TRUE, config |-> DefaultConfig]
    ELSE [err |-> FALSE,
          config |-> [CheckInterval |-> file.check_interval * Second,
                      LockRSSI |-> file.lock_rssi,
                      UnlockRSSI |-> file.unlock_rssi,
                      SessionTimeout |-> file.session_timeout * Second]]

InitializeConfig ==
    /\ pc = "main"
    /\ \E file \in ConfigFiles :
          LET r == LoadConfig(file)
              config == IF r.err THEN DefaultConfig ELSE r.config
          IN  /\ CheckInterval' = IF ~r.err /\ config.CheckInterval = 0
                                  THEN DefaultConfig.CheckInterval
                                  ELSE config.CheckInterval
              /\ SessionTimeout' = IF ~r.err /\ config.SessionTimeout = 0
                                   THEN DefaultConfig.SessionTimeout
                                   ELSE config.SessionTimeout
              /\ LockRSSI' = config.LockRSSI
              /\ UnlockRSSI' = config.UnlockRSSI
              /\ configuredTimeout' = file.session_timeout
    /\ variant' = "config"
    /\ pc' = "monitor"
    /\ UNCHANGED <<mode, lastUnlockedTime, inRange, err, currentTime, clock,
                   cancelRequested, historyVars>>

(***************************************************************************)
(* Sampling                                                                *)
(***************************************************************************)
\* PingBluetoothDevice with the parse error of strconv.Atoi swallowed
PingBluetoothDevice_NilOnParseError(o) ==
    IF ~o.err /\ Contains(o.output, Marker) /\ Len(Split(o.output, ":")) >= 2
    THEN LET rssi == Atoi(TrimSpace(Split(o.output, ":")[2]))
         IN  [inRange |-> ~rssi.err /\ rssi.val >= UnlockRSSI, err |-> FALSE]
    ELSE [inRange |-> FALSE, err |-> FALSE]

\* PingBluetoothDevice with rssi > UnlockRSSI for rssi >= UnlockRSSI
PingBluetoothDevice_StrictUnlock(o) ==
    IF ~o.err /\ Contains(o.output, Marker) /\ Len(Split(o.output, ":")) >= 2
    THEN LET rssi == Atoi(TrimSpace(Split(o.output, ":")[2]))
         IN  [inRange |-> ~rssi.err /\ rssi.val > UnlockRSSI, err |-> rssi.err]
    ELSE [inRange |-> FALSE, err |-> FALSE]

\* the pair (bool, error) PingBluetoothDevice returns for an hcitool outcome
PingBluetoothDevice_LockFirst(o) ==
    IF o.err
    THEN [inRange |-> FALSE, err |-> FALSE]
    ELSE IF Contains(o.output, Marker)
    THEN LET parts == Split(o.output, ":")
         IN  IF Len(parts) < 2
             THEN [inRange |-> FALSE, err |-> FALSE]
             ELSE LET rssi == Atoi(TrimSpace(parts[2]))
                  IN  IF rssi.err
                      THEN [inRange |-> FALSE, err |-> TRUE]
                      ELSE IF rssi.val <= LockRSSI
                      THEN [inRange |-> FALSE, err |-> FALSE]
                      ELSE IF rssi.val >= UnlockRSSI
                      THEN [inRange |-> TRUE, err |-> FALSE]
                      ELSE [inRange |-> FALSE, err |-> FALSE]
    ELSE [inRange |-> FALSE, err |-> FALSE]

PingBluetoothDevice(o) ==
    IF o.err
    THEN [inRange |-> FALSE, err |-> FALSE]
    ELSE IF Contains(o.output, Marker)
    THEN LET parts == Split(o.output, ":")
         IN  IF Len(parts) < 2
             THEN [inRange |-> FALSE, err |-> FALSE]
             ELSE LET rssi == Atoi(TrimSpace(parts[2]))
                  IN  IF rssi.err
                      THEN [inRange |-> FALSE, err |-> TRUE]
                      ELSE IF rssi.val >= UnlockRSSI
                      THEN [inRange |-> TRUE, err |-> FALSE]
                      ELSE IF rssi.val <= LockRSSI
                      THEN [inRange |-> FALSE, err |-> FALSE]
                      ELSE [inRange |-> FALSE, err |-> FALSE]
    ELSE [inRange |-> FALSE, err |-> FALSE]

(***************************************************************************)
(* Actuators                                                               *)
(***************************************************************************)
LockSystem ==
    /\ calls' = Append(calls, "lock")
    /\ log' = Append(log, "lock")

UnlockSystem ==
    /\ calls' = Append(calls, "unlock")
    /\ log' = Append(log, "unlock")

(***************************************************************************)
(* MonitorBluetooth                                                        *)
(***************************************************************************)
\* MonitorBluetooth with mode := "unlocked" as its initial state
MonitorStart_Unlocked ==
    /\ pc = "monitor"
    /\ mode' = "unlocked"
    /\ lastUnlockedTime' = clock
    /\ pc' = "ping"
    /\ UNCHANGED <<configVars, inRange, err, currentTime, clock,
                   cancelRequested, historyVars>>

MonitorStart ==
    /\ pc = "monitor"
    /\ mode' = "locked"
    /\ lastUnlockedTime' = clock
    /\ pc' = "ping"
    /\ UNCHANGED <<configVars, inRange, err, currentTime, clock,
                   cancelRequested, historyVars>>

\* Ping with return for continue: an error ends the loop
Ping_ReturnsOnError ==
    /\ pc = "ping"
    /\ cycles < MaxCycles
    /\ \E o \in HciOutcomes :
          LET r == PingBluetoothDevice(o)
          IN  /\ hci' = o
              /\ inRange' = r.inRange
              /\ err' = r.err
              /\ currentTime' = IF r.err THEN currentTime ELSE clock
              /\ pc' = IF r.err THEN "exited" ELSE "proximity"
    /\ cycles' = cycles + 1
    /\ calls' = <<>>
    /\ modeAtStart' = mode
    /\ lastAtStart' = lastUnlockedTime
    /\ UNCHANGED <<configVars, mode, lastUnlockedTime, clock, cancelRequested, log,
                   forcedAt>>

\* inRange, err := PingBluetoothDevice(); on an error the loop continues
\* at once, otherwise currentTime := time.Now()
Ping ==
    /\ pc = "ping"
    /\ cycles < MaxCycles
    /\ \E o \in HciOutcomes :
          LET r == PingBluetoothDevice(o)
          IN  /\ hci' = o
              /\ inRange' = r.inRange
              /\ err' = r.err
              /\ currentTime' = IF r.err THEN currentTime ELSE clock
              /\ pc' = IF r.err THEN "ping" ELSE "proximity"
    /\ cycles' = cycles + 1
    /\ calls' = <<>>
    /\ modeAtStart' = mode
    /\ lastAtStart' = lastUnlockedTime
    /\ UNCHANGED <<configVars, mode, lastUnlockedTime, clock, cancelRequested, log,
                   forcedAt>>

\* the first if of the loop with the mode tests dropped
Proximity_IgnoresMode ==
    /\ pc = "proximity"
    /\ IF inRange
       THEN /\ UnlockSystem
            /\ lastUnlockedTime' = currentTime
            /\ mode' = "unlocked"
            /\ UNCHANGED forcedAt
       ELSE /\ LockSystem
            /\ mode' = "locked"
            /\ forcedAt' = NoForce
            /\ UNCHANGED lastUnlockedTime
    /\ pc' = "disconnected"
    /\ UNCHANGED <<configVars, inRange, err, currentTime, clock,
                   cancelRequested, cycles, hci, modeAtStart, lastAtStart>>

\* the first if of the loop with mode = "locked" missing from its else branch
Proximity_ForgetsMode ==
    /\ pc = "proximity"
    /\ IF inRange /\ mode = "locked"
       THEN /\ UnlockSystem
            /\ lastUnlockedTime' = currentTime
            /\ mode' = "unlocked"
            /\ UNCHANGED forcedAt
       ELSE IF ~inRange /\ mode = "unlocked"
       THEN /\ LockSystem
            /\ forcedAt' = NoForce
            /\ UNCHANGED <<mode, lastUnlockedTime>>
       ELSE UNCHANGED <<mode, lastUnlockedTime, calls, log, forcedAt>>
    /\ pc' = "disconnected"
    /\ UNCHANGED <<configVars, inRange, err, currentTime, clock,
                   cancelRequested, cycles, hci, modeAtStart, lastAtStart>>

\* if inRange && mode == "locked" {...} else if !inRange && mode == "unlocked" {...}
\* the unlock branch without lastUnlockedTime = currentTime
Proximity_NoRearm ==
    /\ pc = "proximity"
    /\ IF inRange /\ mode = "locked"
       THEN /\ UnlockSystem
            /\ mode' = "unlocked"
            /\ UNCHANGED <<lastUnlockedTime, forcedAt>>
       ELSE IF ~inRange /\ mode = "unlocked"
       THEN /\ LockSystem
            /\ mode' = "locked"
            /\ forcedAt' = NoForce
            /\ UNCHANGED lastUnlockedTime
       ELSE UNCHANGED <<mode, lastUnlockedTime, calls, log, forcedAt>>
    /\ pc' = "disconnected"
    /\ UNCHANGED <<configVars, inRange, err, currentTime, clock,
                   cancelRequested, cycles, hci, modeAtStart, lastAtStart>>

Proximity ==
    /\ pc = "proximity"
    /\ IF inRange /\ mode = "locked"
       THEN /\ UnlockSystem
            /\ lastUnlockedTime' = currentTime
            /\ mode' = "unlocked"
            /\ UNCHANGED forcedAt
       ELSE IF ~inRange /\ mode = "unlocked"
       THEN /\ LockSystem
            /\ mode' = "locked"
            /\ forcedAt' = NoForce
            /\ UNCHANGED lastUnlockedTime
       ELSE UNCHANGED <<mode, lastUnlockedTime, calls, log, forcedAt>>
    /\ pc' = "disconnected"
    /\ UNCHANGED <<configVars, inRange, err, currentTime, clock,
                   cancelRequested, cycles, hci, modeAtStart, lastAtStart>>

\* if !inRange && mode == "unlocked" {...}
Disconnected ==
    /\ pc = "disconnected"
    /\ IF ~inRange /\ mode = "unlocked"
       THEN /\ LockSystem
            /\ mode' = "locked"
            /\ forcedAt' = NoForce
       ELSE UNCHANGED <<mode, calls, log, forcedAt>>
    /\ pc' = "timeout"
    /\ UNCHANGED <<configVars, lastUnlockedTime, inRange, err, currentTime,
                   clock, cancelRequested, cycles, hci, modeAtStart, lastAtStart>>

\* the timeout test with >= for >
Timeout_AtLeast ==
    /\ pc = "timeout"
    /\ IF mode = "unlocked" /\ currentTime - lastUnlockedTime >= SessionTimeout
       THEN /\ LockSystem
            /\ mode' = "locked"
            /\ forcedAt' = [cycle |-> cycles, time |-> currentTime]
       ELSE UNCHANGED <<mode, calls, log, forcedAt>>
    /\ pc' = "sleep"
    /\ UNCHANGED <<configVars, lastUnlockedTime, inRange, err, currentTime,
                   clock, cancelRequested, cycles, hci, modeAtStart, lastAtStart>>

\* the timeout test with the operands of Sub exchanged
Timeout_Swapped ==
    /\ pc = "timeout"
    /\ IF mode = "unlocked" /\ lastUnlockedTime - currentTime > SessionTimeout
       THEN /\ LockSystem
            /\ mode' = "locked"
            /\ forcedAt' = [cycle |-> cycles, time |-> currentTime]
       ELSE UNCHANGED <<mode, calls, log, forcedAt>>
    /\ pc' = "sleep"
    /\ UNCHANGED <<configVars, lastUnlockedTime, inRange, err, currentTime,
                   clock, cancelRequested, cycles, hci, modeAtStart, lastAtStart>>

\* the timeout test restarting the session clock when it locks
Timeout_Rearms ==
    /\ pc = "timeout"
    /\ IF mode = "unlocked" /\ currentTime - lastUnlockedTime > SessionTimeout
       THEN /\ LockSystem
            /\ mode' = "locked"
            /\ lastUnlockedTime' = currentTime
            /\ forcedAt' = [cycle |-> cycles, time |-> currentTime]
       ELSE UNCHANGED <<mode, lastUnlockedTime, calls, log, forcedAt>>
    /\ pc' = "sleep"
    /\ UNCHANGED <<configVars, inRange, err, currentTime,
                   clock, cancelRequested, cycles, hci, modeAtStart, lastAtStart>>

\* the timeout test without mode = "locked" after its LockSystem call
Timeout_KeepsMode ==
    /\ pc = "timeout"
    /\ IF mode = "unlocked" /\ currentTime - lastUnlockedTime > SessionTimeout
       THEN /\ LockSystem
            /\ forcedAt' = [cycle |-> cycles, time |-> currentTime]
            /\ UNCHANGED mode
       ELSE UNCHANGED <<mode, calls, log, forcedAt>>
    /\ pc' = "sleep"
    /\ UNCHANGED <<configVars, lastUnlockedTime, inRange, err, currentTime,
                   clock, cancelRequested, cycles, hci, modeAtStart, lastAtStart>>

\* if mode == "unlocked" && currentTime.Sub(lastUnlockedTime) > SessionTimeout {...}
Timeout ==
    /\ pc = "timeout"
    /\ IF mode = "unlocked" /\ currentTime - lastUnlockedTime > SessionTimeout
       THEN /\ LockSystem
            /\ mode' = "locked"
            /\ forcedAt' = [cycle |-> cycles, time |-> currentTime]
       ELSE UNCHANGED <<mode, calls, log, forcedAt>>
    /\ pc' = "sleep"
    /\ UNCHANGED <<configVars, lastUnlockedTime, inRange, err, currentTime,
                   clock, cancelRequested, cycles, hci, modeAtStart, lastAtStart>>

\* time.Sleep(CheckInterval): returns at once for a duration <= 0.  The
\* iteration ends here and its locals go out of scope.
Sleep ==
    /\ pc = "sleep"
    /\ clock' = clock + (IF CheckInterval > 0 THEN CheckInterval ELSE 0)
    /\ pc' = "ping"
    /\ inRange' = FALSE
    /\ err' = FALSE
    /\ currentTime' = 0
    /\ hci' = NoOutcome
    /\ calls' = <<>>
    /\ modeAtStart' = mode
    /\ lastAtStart' = lastUnlockedTime
    /\ UNCHANGED <<configVars, mode, lastUnlockedTime, cancelRequested, cycles, log,
                   forcedAt>>

\* a request to stop the monitor arrives while it sleeps; no statement of
\* the loop reads it
RequestCancel ==
    /\ pc = "sleep"
    /\ ~cancelRequested
    /\ cancelRequested' = TRUE
    /\ UNCHANGED <<configVars, pc, mode, lastUnlockedTime, inRange, err,
                   currentTime, clock, historyVars>>

\* the statement at pc calls UnlockSystem / LockSystem
UnlockDue == pc = "proximity" /\ inRange /\ mode = "locked"
LockDue ==
    \/ pc \in {"proximity", "disconnected"} /\ ~inRange /\ mode = "unlocked"
    \/ pc = "timeout" /\ mode = "unlocked"
          /\ currentTime - lastUnlockedTime > SessionTimeout

\* LockSystem and UnlockSystem wait in exec.Cmd.Run() for the screensaver
\* command to exit: a command that never exits keeps the goroutine in the
\* call, before the assignments that follow it
ActuatorHang ==
    /\ UnlockDue \/ LockDue
    /\ IF UnlockDue THEN UnlockSystem ELSE LockSystem
    /\ pc' = "blocked"
    /\ UNCHANGED <<configVars, mode, lastUnlockedTime, inRange, err, currentTime,
                   clock, cancelRequested, cycles, hci, modeAtStart, lastAtStart,
                   forcedAt>>

\* the steps of the program itself
MonitorStep ==
    \/ InitializeFlags
    \/ InitializeConfig
    \/ MonitorStart
    \/ Ping
    \/ Proximity
    \/ Disconnected
    \/ Timeout
    \/ Sleep

Next ==
    \/ MonitorStep
    \/ ActuatorHang
    \/ RequestCancel

Spec == Init /\ [][Next]_vars

\* the goroutine is always scheduled: a statement that can run does run,
\* unless the call it makes never returns
LiveSpec == Spec /\ WF_vars(MonitorStep)

TypeOK ==
    /\ pc \in {"main", "monitor", "ping", "proximity", "disconnected", "timeout",
              "sleep", "blocked"}
    /\ mode \in {"", "locked", "unlocked"}
    /\ Len(calls) <= 2


(***************************************************************************)
(* Vocabulary of the properties: the reading an hcitool outcome stands     *)
(* for, and the verdict on it                                              *)
(***************************************************************************)
\* hcitool could not be run or exited with an error
ExecFailed(o) == o.err

\* the output carries an RSSI field
HasField(o) ==
    ~o.err /\ Contains(o.output, Marker) /\ Len(Split(o.output, ":")) >= 2

Field(o) == Atoi(TrimSpace(Split(o.output, ":")[2]))

\* InRange(s): hcitool ran and the field parses as the integer s
HasRSSI(o) == HasField(o) /\ ~Field(o).err
RSSIOf(o) == Field(o).val

\* the RSSI field is there and does not parse
ParseFailed(o) == HasField(o) /\ Field(o).err

\* hcitool ran and its output has no RSSI field
NoField(o) == ~o.err /\ ~HasField(o)

Verdict(o) ==
    IF ParseFailed(o) THEN "SamplingFailed"
    ELSE IF ~HasRSSI(o) THEN "Far"
    ELSE IF RSSIOf(o) >= UnlockRSSI THEN "Near"
    ELSE IF RSSIOf(o) <= LockRSSI THEN "Far"
    ELSE "Indeterminate"

InGap(o) == HasRSSI(o) /\ LockRSSI < RSSIOf(o) /\ RSSIOf(o) < UnlockRSSI

\* an iteration is under way or has just ended
Sampled == hci # NoOutcome

\* the positions of the goroutine inside the for loop
LoopPcs == {"ping", "proximity", "disconnected", "timeout", "sleep"}

Count(seq, x) == Cardinality({i \in DOMAIN seq : seq[i] = x})

(***************************************************************************)
(* Properties                                                              *)
(***************************************************************************)

\* C1: with SessionTimeout >= 0 an iteration of the loop makes at most one
\* actuator call: never LockSystem and UnlockSystem both, never LockSystem twice.
C1_AtMostOneCall ==
    (pc \notin {"main", "monitor"} /\ SessionTimeout >= 0) => Len(calls) <= 1

C1_Witness ==
    /\ pc = "sleep"
    /\ SessionTimeout >= 0
    /\ inRange
    /\ modeAtStart = "unlocked"
    /\ calls = <<"lock">>

C3_GapIsSticky ==
    (pc = "sleep" /\ LockRSSI < UnlockRSSI /\ InGap(hci)
        /\ (modeAtStart = "unlocked" => currentTime - lastAtStart <= SessionTimeout))
        => (mode = modeAtStart /\ calls = <<>>)

\* C4: with SessionTimeout > 0, in an iteration that starts Unlocked (unlocked
\* at lastUnlockedTime, not locked since) and whose verdict is Near or
\* Indeterminate: if more than SessionTimeout has passed, the iteration ends
\* Locked with exactly one LockSystem call; otherwise the timeout test makes
\* no call and leaves mode alone.  (The iteration ends when the timeout test
\* has run and its LockSystem call, if any, has returned.)
C4_TimeoutOverridesProximity ==
    [][(pc = "timeout" /\ SessionTimeout > 0 /\ modeAtStart = "unlocked"
          /\ Verdict(hci) \in {"Near", "Indeterminate"})
        => IF currentTime - lastAtStart > SessionTimeout
           THEN pc' = "sleep" => (calls' = <<"lock">> /\ mode' = "locked")
           ELSE pc' = "sleep" /\ calls' = calls /\ mode' = mode]_vars

C4_Witness ==
    /\ pc = "sleep"
    /\ SessionTimeout > 0
    /\ modeAtStart = "unlocked"
    /\ Verdict(hci) = "Near"
    /\ currentTime - lastAtStart > SessionTimeout
    /\ calls = <<"lock">>
    /\ mode = "locked"

\* C5: a session timeout configured as 0 disables the timeout: an Unlocked
\* session whose verdict is Near stays Unlocked and no LockSystem call is made.
C5_ZeroDisablesTimeout ==
    (pc = "sleep" /\ configuredTimeout = 0 /\ modeAtStart = "unlocked"
        /\ Verdict(hci) = "Near")
        => (mode = "unlocked" /\ calls = <<>>)

\* C6: the monitor starts Locked whatever the first reading is, and no
\* actuator call is made before the first sample has been taken and decided.
C6_StartsLocked ==
    /\ pc \in {"main", "monitor"} => log = <<>>
    /\ (pc = "ping" /\ cycles = 0) => (mode = "locked" /\ log = <<>>)
    /\ (cycles = 1 /\ Sampled) => modeAtStart = "locked"
    /\ (cycles = 1 /\ Sampled /\ pc \in {"ping", "proximity"})
          => (mode = "locked" /\ log = <<>>)

C6_Witness ==
    /\ cycles = 1
    /\ pc = "proximity"
    /\ Verdict(hci) = "Near"
    /\ mode = "locked"

\* C7: a verdict repeated in the state it leads to makes no actuator call:
\* Far while Locked, and Near while Unlocked within the session timeout.
C7_Idempotent ==
    /\ (pc = "sleep" /\ modeAtStart = "locked" /\ Verdict(hci) = "Far")
          => (calls = <<>> /\ mode = "locked")
    /\ (pc = "sleep" /\ modeAtStart = "unlocked" /\ Verdict(hci) = "Near"
          /\ currentTime - lastAtStart <= SessionTimeout)
          => (calls = <<>> /\ mode = "unlocked")

C7_Witness ==
    /\ pc = "sleep"
    /\ cycles = 3
    /\ log = <<"unlock">>
    /\ lastUnlockedTime = 0
    /\ clock > 0
    /\ modeAtStart = "unlocked"
    /\ Verdict(hci) = "Near"
    /\ calls = <<>>

\* C8: once cancellation has been requested during the sleep, no LockSystem
\* or UnlockSystem call is made any more.
C8_NoCallAfterCancel ==
    [][cancelRequested => log' = log]_vars

\* C9: UnlockSystem is called in an iteration exactly when the iteration
\* starts Locked and the reading is InRange(s) with s >= UnlockRSSI; it is
\* called once, as the first call, and the first if sets mode to "unlocked"
\* and lastUnlockedTime to the iteration's currentTime; lastUnlockedTime keeps
\* that value, and with SessionTimeout >= 0 mode is still "unlocked", when
\* the iteration ends.
C9_UnlockWhenLockedAndNear ==
    /\ pc \in {"disconnected", "timeout", "sleep"} =>
          /\ Count(calls, "unlock") =
                IF modeAtStart = "locked" /\ HasRSSI(hci)
                      /\ RSSIOf(hci) >= UnlockRSSI
                THEN 1 ELSE 0
          /\ Count(calls, "unlock") = 1 =>
                /\ Head(calls) = "unlock"
                /\ lastUnlockedTime = currentTime
                /\ currentTime = clock
                /\ pc = "disconnected" => (mode = "unlocked" /\ calls = <<"unlock">>)
                /\ SessionTimeout >= 0 => (mode = "unlocked" /\ calls = <<"unlock">>)
    /\ (pc = "ping" /\ Sampled) => calls = <<>>

C9_Witness ==
    /\ pc = "sleep"
    /\ cycles = 1
    /\ LockRSSI = -14
    /\ UnlockRSSI = -14
    /\ hci = [err |-> FALSE, output |-> HciRSSILine(-10)]
    /\ calls = <<"unlock">>
    /\ mode = "unlocked"

\* C10: a Far verdict in an iteration that starts Unlocked ends it Locked
\* with exactly one LockSystem call, also when the session timeout has
\* expired; in an iteration that starts Locked it changes nothing.
C10_FarLocksOnce ==
    (pc = "sleep" /\ Verdict(hci) = "Far") =>
        /\ mode = "locked"
        /\ lastUnlockedTime = lastAtStart
        /\ calls = IF modeAtStart = "unlocked" THEN <<"lock">> ELSE <<>>

C10_Witness ==
    /\ pc = "sleep"
    /\ Verdict(hci) = "Far"
    /\ modeAtStart = "unlocked"
    /\ SessionTimeout > 0
    /\ currentTime - lastAtStart > SessionTimeout
    /\ calls = <<"lock">>


\* C11: between two consecutive calls of PingBluetoothDevice the monitor
\* sleeps CheckInterval, whatever the first sample's outcome: a sample is
\* never taken while the previous one has not been followed by the sleep.
C11_SleepBetweenSamples ==
    [][cycles' = cycles + 1 => ~Sampled]_vars

\* C12: lastUnlockedTime is written only by the statement that takes mode
\* from "locked" to "unlocked", and gets that iteration's currentTime; every
\* other step (failed sample, Indeterminate, Near while Unlocked, Far,
\* timeout lock, sleep) leaves it as it is.
C12_OnlyUnlockWritesLastUnlocked ==
    [][lastUnlockedTime' # lastUnlockedTime
        => (pc = "proximity" /\ inRange /\ mode = "locked" /\ mode' = "unlocked"
              /\ lastUnlockedTime' = currentTime)]_vars

C12_Witness ==
    /\ pc = "sleep"
    /\ forcedAt.cycle = cycles
    /\ modeAtStart = "unlocked"
    /\ calls = <<"lock">>
    /\ currentTime > lastUnlockedTime
    /\ lastUnlockedTime = lastAtStart

\* C13: no reading ends the monitor: once the loop runs the goroutine stays
\* in it, and from every state of the loop another sample is taken (up to
\* MaxCycles samples), unless an actuator call never returns.
C13_AlwaysSamplesAgain ==
    /\ [](cycles > 0 => pc \in LoopPcs \cup {"blocked"})
    /\ \A n \in 0..(MaxCycles - 1) :
          (pc \in LoopPcs /\ cycles = n) ~> (cycles = n + 1 \/ pc = "blocked")

C13_Witness ==
    /\ pc = "ping"
    /\ cycles = 3
    /\ clock = 0
    /\ ParseFailed(hci)
    /\ log = <<>>

\* C14: a LockSystem or UnlockSystem call that never returns does not stall
\* polling: the monitor still begins a later iteration.
C14_HangDoesNotStall ==
    (pc = "blocked" /\ cycles < MaxCycles) ~> (pc = "ping")

\* C15: with SessionTimeout >= 0 the actuator calls alternate unlock, lock,
\* unlock, ... starting with unlock, and at the end of every iteration mode
\* is "unlocked" exactly if the last call was UnlockSystem.
C15_CallsAlternate ==
    (SessionTimeout >= 0 /\ pc \notin {"main", "monitor"}) =>
        /\ \A i \in DOMAIN log : log[i] = IF i % 2 = 1 THEN "unlock" ELSE "lock"
        /\ pc \in {"ping", "sleep"} =>
              (mode = "unlocked" <=> (log # <<>> /\ log[Len(log)] = "unlock"))

C15_Witness ==
    /\ pc = "sleep"
    /\ SessionTimeout >= 0
    /\ log = <<"unlock", "lock", "unlock">>
    /\ mode = "unlocked"

\* C16: whatever SessionTimeout the flags or config.json hand over, zero and
\* negative included, an iteration that calls UnlockSystem makes no
\* LockSystem call and ends with mode = "unlocked".
C16_UnlockNotUndone ==
    (pc = "sleep" /\ Count(calls, "unlock") > 0)
        => (mode = "unlocked" /\ Count(calls, "lock") = 0)

\* C17: an iteration that starts with mode = "unlocked", SessionTimeout > 0
\* and more than SessionTimeout elapsed since lastUnlockedTime ends with
\* mode = "locked" whatever the sample was, a failed sample included.
C17_ExpiredSessionLocks ==
    ((pc = "sleep" \/ (pc = "ping" /\ Sampled))
        /\ modeAtStart = "unlocked"
        /\ SessionTimeout > 0
        /\ clock - lastAtStart > SessionTimeout)
        => mode = "locked"

\* C18: after the timeout test has locked, an iteration that finds mode =
\* "locked" and takes a Near sample calls UnlockSystem again and sets
\* lastUnlockedTime to its own currentTime; when it is the very next
\* iteration, that is one CheckInterval after the forced lock.
C18_ReunlockAfterTimeout ==
    (pc \in {"disconnected", "timeout", "sleep"}
        /\ forcedAt.cycle > 0
        /\ forcedAt.cycle < cycles
        /\ modeAtStart = "locked"
        /\ Verdict(hci) = "Near")
        => /\ calls # <<>>
           /\ calls[1] = "unlock"
           /\ Count(calls, "unlock") = 1
           /\ lastUnlockedTime = currentTime
           /\ pc = "disconnected" => mode = "unlocked"
           /\ cycles = forcedAt.cycle + 1
                 => currentTime = forcedAt.time
                                    + (IF CheckInterval > 0 THEN CheckInterval ELSE 0)

C18_Witness ==
    /\ pc = "sleep"
    /\ cycles = 3
    /\ forcedAt.cycle = 2
    /\ SessionTimeout >= 0
    /\ Verdict(hci) = "Near"
    /\ log = <<"unlock", "lock", "unlock">>
    /\ lastUnlockedTime = currentTime
    /\ currentTime > forcedAt.time

\* C19: for every ordering of the two thresholds a parsed RSSI gets exactly
\* one verdict and no error, decided by the unlock test alone; a value with
\* UnlockRSSI <= value <= LockRSSI is in range (Near).
C19_OverlapIsNear ==
    (pc \in {"proximity", "disconnected", "timeout", "sleep"} /\ HasRSSI(hci))
        => /\ ~err
           /\ inRange \in BOOLEAN
           /\ inRange <=> RSSIOf(hci) >= UnlockRSSI
           /\ (UnlockRSSI <= RSSIOf(hci) /\ RSSIOf(hci) <= LockRSSI) => inRange

C19_Witness ==
    /\ pc = "proximity"
    /\ UnlockRSSI < LockRSSI
    /\ HasRSSI(hci)
    /\ UnlockRSSI < RSSIOf(hci)
    /\ RSSIOf(hci) < LockRSSI
    /\ inRange

=============================================================================
